---- MODULE Spec2Model ----
(***************************************************************************)
(* Model of the book-content RAG service: BookContentAgent (agent.py) and  *)
(* the FastAPI facade with its AgentManager (api.py).                      *)
(*                                                                         *)
(* Text is a sequence of one-character strings.  A fixed message of the    *)
(* program is a one-element sequence holding the message as a token, so    *)
(* that fixed messages and generated answers are values of the same kind.  *)
(* Python values that may be None are tagged records.                      *)
(***************************************************************************)
EXTENDS Integers, Sequences, FiniteSets, TLC

\* ------------------------------------------------------------------ bounds
MaxQueryLen == 4
MaxHits == 3
MaxRequests == 2

\* -------------------------------------------------------- Python values
NoneVal == [t |-> "None"]
Absent == [t |-> "absent"]
Float(x) == [t |-> "float", v |-> x]
Str(s) == [t |-> "str", v |-> s]
Dict(c) == [t |-> "dict", content |-> c]

\* ------------------------------------------------------------ str methods
Whitespace == {" ", "\t", "\n"}

UpperCase == <<"A","B","C","D","E","F","G","H","I","J","K","L","M",
               "N","O","P","Q","R","S","T","U","V","W","X","Y","Z">>
LowerCase == <<"a","b","c","d","e","f","g","h","i","j","k","l","m",
               "n","o","p","q","r","s","t","u","v","w","x","y","z">>

UpperSet == {UpperCase[i] : i \in DOMAIN UpperCase}
LowerOf ==
    [c \in UpperSet |-> LowerCase[CHOOSE i \in DOMAIN UpperCase : UpperCase[i] = c]]

LowerChar(c) == IF c \in UpperSet THEN LowerOf[c] ELSE c

\* str.lower()
Lower(s) == [i \in DOMAIN s |-> LowerChar(s[i])]

RECURSIVE LStrip(_)
LStrip(s) ==
    IF s # <<>> /\ Head(s) \in Whitespace THEN LStrip(Tail(s)) ELSE s

RECURSIVE RStrip(_)
RStrip(s) ==
    IF s # <<>> /\ s[Len(s)] \in Whitespace
    THEN RStrip(SubSeq(s, 1, Len(s) - 1))
    ELSE s

\* str.strip()
Strip(s) == RStrip(LStrip(s))

\* k in s, for strings
Contains(s, k) ==
    \E i \in 0..(Len(s) - Len(k)) : SubSeq(s, i + 1, i + Len(k)) = k

\* s[:n]
Prefix(s, n) == SubSeq(s, 1, IF Len(s) < n THEN Len(s) ELSE n)

\* ------------------------------------------------------ program constants
ScoreThreshold == 30
MaxContentChars == 800
SearchLimit == 5

greetings ==
    { <<"h","e","l","l","o">>, <<"h","i">>, <<"h","e","y">>,
      <<"g","o","o","d"," ","m","o","r","n","i","n","g">>,
      <<"g","o","o","d"," ","e","v","e","n","i","n","g">>,
      <<"g","o","o","d"," ","a","f","t","e","r","n","o","o","n">> }

off_topic_keywords ==
    { <<"w","e","a","t","h","e","r">>, <<"j","o","k","e">>, <<"n","e","w","s">>,
      <<"s","p","o","r","t","s">>, <<"m","o","v","i","e">>,
      <<"c","e","l","e","b","r","i","t","y">>, <<"c","r","y","p","t","o">>,
      <<"r","e","c","i","p","e">>, <<"f","o","o","d">>, <<"t","r","a","v","e","l">>,
      <<"m","u","s","i","c">>, <<"s","o","n","g">>, <<"h","e","a","l","t","h">>,
      <<"m","e","d","i","c","a","l">>, <<"e","x","e","r","c","i","s","e">>,
      <<"d","i","e","t">> }

\* The fixed messages, each as one token (the warning sign and the line
\* breaks of the unavailable message left out).
EmptyQueryMsg == <<"Query cannot be empty.">>
GreetingMsg == <<"Hello! I'm your Book Assistant. Ask me anything about ROS 2, humanoid robotics, or the course material.">>
OffTopicMsg == <<"I can only answer questions related to the book content. Please ask about robotics, ROS 2, or the course material.">>
UnavailableMsg == <<"AI services are not configured. Please set COHERE_API_KEY to enable question answering.">>
NoContentMsg == <<"No relevant book content found. Try asking about ROS 2 or humanoid robotics.">>
NoResponseMsg == <<"No response generated. Please rephrase your question.">>
InternalErrorMsg == <<"Sorry, I encountered an internal error while processing your request.">>

\* ------------------------------------------------------- BookContentAgent
\* BookContentAgent(): both clients start as None and _initialize_clients
\* fills in those whose configuration exists and whose set-up does not raise.
\* m.cohere_init / m.qdrant_init say whether cohere.Client(...) and the
\* Qdrant connection (constructor and get_collections) succeed.
InitializeClientsNoCatch(key, m) ==
    [raised |-> (key /\ m.cohere_init = "raise") \/ m.qdrant_init = "raise",
     cohere_client |-> key /\ m.cohere_init = "ok",
     qdrant |-> m.qdrant_init = "ok"]

InitializeClients(key, m) ==
    [raised |-> FALSE,
     cohere_client |-> key /\ m.cohere_init = "ok",
     qdrant |-> m.qdrant_init = "ok"]

\* hit.score or 0.0, as hundredths
ScoreOf(hit) ==
    IF hit.score.t = "None" \/ hit.score.v = 0 THEN 0 ELSE hit.score.v

\* (hit.payload or {}).get("content", "")
ContentOf(hit) ==
    IF hit.payload.t = "None" THEN Str(<<>>)
    ELSE IF hit.payload.content.t = "absent" THEN Str(<<>>)
    ELSE hit.payload.content

ScorePassesStrict(score) == score > ScoreThreshold

\* score >= 0.3
ScorePasses(score) == score >= ScoreThreshold

TruncateNone(text) == text

\* text[:800]
Truncate(text) == Prefix(text, MaxContentChars)

\* The loop over hits: exc is set when the loop raised (text.strip() on a
\* content that is no string); kept is retrieved_content.
RECURSIVE FilterHits(_, _)
FilterHits(hits, kept) ==
    IF hits = <<>> THEN [exc |-> FALSE, kept |-> kept]
    ELSE LET hit == Head(hits)
             score == ScoreOf(hit)
         IN IF ~ScorePasses(score) THEN FilterHits(Tail(hits), kept)
            ELSE LET text == ContentOf(hit)
                 IN IF text.t # "str" THEN [exc |-> TRUE, kept |-> kept]
                    ELSE IF Strip(text.v) # <<>>
                    THEN FilterHits(Tail(hits),
                             Append(kept, [content |-> Truncate(text.v),
                                           score |-> score]))
                    ELSE FilterHits(Tail(hits), kept)

\* context: the labelled excerpts in order, "[Excerpt i+1]:\n<content>",
\* joined by the rule; kept as the sequence of its labelled parts.
Context(retrieved) ==
    [i \in DOMAIN retrieved |-> [label |-> i, content |-> retrieved[i].content]]

RagPrompt(retrieved, user_input) ==
    [context |-> Context(retrieved), question |-> user_input]

NoPrompt == [context |-> <<>>, question |-> <<>>]

\* What one run of the try block did: exc (an exception was raised in it),
\* ret (the value returned when none was), calls (the external calls issued,
\* in order), hits (what the search returned), retrieved, prompt.
Flow(exc, ret, calls, hits, retrieved, prompt) ==
    [exc |-> exc, ret |-> ret, calls |-> calls, hits |-> hits,
     retrieved |-> retrieved, prompt |-> prompt]

\* response.text.strip() if response.text else "", then answer or <fixed>
Answer(resp) ==
    LET answer == IF resp.t = "None" \/ resp.v = <<>> THEN <<>> ELSE Strip(resp.v)
    IN IF answer = <<>> THEN NoResponseMsg ELSE answer

\* GENERATION (agent.py:190-198), after the prompt is built
Generation(calls, hits, retrieved, user_input, m) ==
    LET prompt == RagPrompt(retrieved, user_input)
        calls2 == Append(calls, "chat")
    IN IF m.chat.t = "raise"
       THEN Flow(TRUE, <<>>, calls2, hits, retrieved, prompt)
       ELSE Flow(FALSE, Answer(m.chat), calls2, hits, retrieved, prompt)

AfterRetrievalAlwaysGenerate(calls, hits, retrieved, user_input, m) ==
    Generation(calls, hits, retrieved, user_input, m)

\* `if not retrieved_content: return ...` (agent.py:156-160), then generation
AfterRetrieval(calls, hits, retrieved, user_input, m) ==
    IF retrieved = <<>>
    THEN Flow(FALSE, NoContentMsg, calls, hits, retrieved, NoPrompt)
    ELSE Generation(calls, hits, retrieved, user_input, m)

\* VECTOR SEARCH (agent.py:135-152)
VectorSearch(self, calls, user_input, m) ==
    IF ~self.qdrant THEN AfterRetrieval(calls, <<>>, <<>>, user_input, m)
    ELSE LET calls2 == Append(calls, "search")
         IN IF m.search.t = "raise"
            THEN Flow(TRUE, <<>>, calls2, <<>>, <<>>, NoPrompt)
            ELSE LET f == FilterHits(m.search.hits, <<>>)
                 IN IF f.exc
                    THEN Flow(TRUE, <<>>, calls2, m.search.hits, f.kept, NoPrompt)
                    ELSE AfterRetrieval(calls2, m.search.hits, f.kept, user_input, m)

\* The try block of query (agent.py:120-198): EMBEDDING first.
RagFlow(self, user_input, m) ==
    LET calls == <<"embed">>
    IN IF m.embed # "ok"
       THEN Flow(TRUE, <<>>, calls, <<>>, <<>>, NoPrompt)
       ELSE VectorSearch(self, calls, user_input, m)

\* What query did: raised (an exception left query), result (the returned
\* string), and the flow's record.
Outcome(raised, result, flow) ==
    [raised |-> raised, result |-> result, calls |-> flow.calls,
     hits |-> flow.hits, retrieved |-> flow.retrieved, prompt |-> flow.prompt]

NoFlow == Flow(FALSE, <<>>, <<>>, <<>>, <<>>, NoPrompt)

RagNoCatch(self, user_input, m) ==
    LET f == RagFlow(self, user_input, m)
    IN Outcome(f.exc, f.ret, f)

\* try: ... except Exception: return <internal error> (agent.py:120-204)
Rag(self, user_input, m) ==
    LET f == RagFlow(self, user_input, m)
    IN IF f.exc THEN Outcome(FALSE, InternalErrorMsg, f)
       ELSE Outcome(FALSE, f.ret, f)

IsEmptyQuery(user_input) == user_input = <<>> \/ Strip(user_input) = <<>>
IsGreeting(user_input) == Strip(Lower(user_input)) \in greetings
IsOffTopic(user_input) ==
    \E low \in {Lower(user_input)} :
        \E k \in off_topic_keywords : Contains(low, k)

QueryUnavailableFirst(self, user_input, m) ==
    IF IsEmptyQuery(user_input) THEN Outcome(FALSE, EmptyQueryMsg, NoFlow)
    ELSE IF IsGreeting(user_input) THEN Outcome(FALSE, GreetingMsg, NoFlow)
    ELSE IF ~self.cohere_client THEN Outcome(FALSE, UnavailableMsg, NoFlow)
    ELSE IF IsOffTopic(user_input) THEN Outcome(FALSE, OffTopicMsg, NoFlow)
    ELSE Rag(self, user_input, m)

QueryNoHardStop(self, user_input, m) ==
    IF IsEmptyQuery(user_input) THEN Outcome(FALSE, EmptyQueryMsg, NoFlow)
    ELSE IF IsGreeting(user_input) THEN Outcome(FALSE, GreetingMsg, NoFlow)
    ELSE IF IsOffTopic(user_input) THEN Outcome(FALSE, OffTopicMsg, NoFlow)
    ELSE Rag([self EXCEPT !.cohere_client = TRUE], user_input, m)

\* BookContentAgent.query (agent.py:88-204)
Query(self, user_input, m) ==
    IF IsEmptyQuery(user_input) THEN Outcome(FALSE, EmptyQueryMsg, NoFlow)
    ELSE IF IsGreeting(user_input) THEN Outcome(FALSE, GreetingMsg, NoFlow)
    ELSE IF IsOffTopic(user_input) THEN Outcome(FALSE, OffTopicMsg, NoFlow)
    ELSE IF ~self.cohere_client THEN Outcome(FALSE, UnavailableMsg, NoFlow)
    ELSE Rag(self, user_input, m)

\* ------------------------------------------------------------ the inputs
\* Characters of the queries tried: enough for a greeting ("hi"), a blocked
\* keyword ("diet"), a capital and a blank.
Alphabet == {" ", "d", "i", "e", "t", "h", "I"}

Strings(n) == UNION {[1..k -> Alphabet] : k \in 0..n}

\* Longer queries: a keyword inside other words, a greeting with more text.
SampleQueries ==
    { <<" ","H","i"," "," ">>,
      <<"h","i"," ","d","i","e","t">>,
      <<"t","h","e"," ","D","I","E","T","s">>,
      <<"h","i","t"," ","i","t">>,
      <<"e","d","i","t">>,
      <<" "," ">> }

Substantive == <<"h","i","t"," ","i","t">>

Hit(score, payload) == [score |-> score, payload |-> payload]

ShortText == <<" ", "b">>
BlankText == <<" ", " ">>
LongText ==
    [i \in 1..(MaxContentChars + 1) |-> IF i <= MaxContentChars THEN "a" ELSE "z"]

HitKinds ==
    {Hit(Float(s), Dict(Str(ShortText))) : s \in {20, 30, 40, 50}}
    \cup {Hit(NoneVal, Dict(Str(ShortText)))}
    \cup {Hit(Float(50), p) : p \in {NoneVal, Dict(Absent), Dict(Str(BlankText)),
                                     Dict(Str(LongText)), Dict(NoneVal)}}
    \cup {Hit(Float(20), Dict(NoneVal))}

\* The search asks for limit=5 hits: the store returns at most that many.
HitLists(n) ==
    UNION {[1..k -> HitKinds] : k \in 0..(IF n < SearchLimit THEN n ELSE SearchLimit)}

Raise == [t |-> "raise"]
Hits(h) == [t |-> "hits", hits |-> h]

OneGoodHit == <<Hit(Float(50), Dict(Str(ShortText)))>>

ChatReplies ==
    {Raise, NoneVal, Str(<<>>), Str(<<" ">>), Str(<<" ", "o", "k", " ">>)}

Mock(ci, qi, e, s, c) ==
    [cohere_init |-> ci, qdrant_init |-> qi, embed |-> e, search |-> s, chat |-> c]

\* Every query over the alphabet, against each client configuration.
QueryMocks ==
    {Mock("ok", qi, "ok", Hits(OneGoodHit), Str(<<"o", "k">>)) : qi \in {"ok", "raise"}}

\* Every way the services can fail or answer, with few search results.
ServiceMocks ==
    {Mock(ci, qi, e, s, c) :
        ci \in {"ok", "raise"}, qi \in {"ok", "raise"},
        e \in {"ok", "raise", "empty"},
        s \in {Raise, Hits(<<>>), Hits(OneGoodHit)},
        c \in ChatReplies}

\* Every list of search hits, with the services up.
SearchMocks ==
    {Mock("ok", "ok", "ok", Hits(h), c) :
        h \in HitLists(MaxHits), c \in {Raise, Str(<<" ", "o", "k", " ">>)}}

\* Requests of the HTTP clients.
ApiQueries ==
    { <<>>, <<" ", " ">>, <<"H", "i">>, <<"d", "i", "e", "t">>, Substantive }

SessionIds == {NoneVal, Str(""), Str("a")}

Request(q, sid) == [query |-> q, session_id |-> sid]

Requests == {Request(q, sid) : q \in ApiQueries, sid \in SessionIds}

\* The services behind one request: the vector store reachable or not when
\* an instance is built, then an embedding failure, an empty search, a
\* generation failure or an answer.
ApiMocks ==
    {Mock("ok", qi, b[1], b[2], b[3]) :
        qi \in {"ok", "raise"},
        b \in { <<"raise", Hits(<<>>), NoneVal>>,
                <<"ok", Hits(<<>>), NoneVal>>,
                <<"ok", Hits(OneGoodHit), Raise>>,
                <<"ok", Hits(OneGoodHit), Str(<<" ", "o", "k", " ">>)>> }}

\* ---------------------------------------------------------------- state
VARIABLES
    cohereKey,    \* COHERE_API_KEY is set (agent.py:30)
    mock,         \* how the external services behave in the local run
    user_input,   \* the string handed to agent.query in the local run
    pc,           \* "start", "ready", "done", "crashed"; "serve" for the API
    agent,        \* the BookContentAgent of the local run
    out,          \* what the last agent.query did
    agents,       \* AgentManager.agents: session key -> instance
    instances,    \* the BookContentAgent objects constructed, in order
    log,          \* what get_agent printed: <<"create"|"reuse", key>>
    inbox,        \* requests accepted and waiting for the event loop
    arrived,      \* number of requests accepted so far
    last,         \* the request handled last and its response
    raced         \* keys that had two first requests waiting at once

vars == <<cohereKey, mock, user_input, pc, agent, out,
          agents, instances, log, inbox, arrived, last, raced>>

localVars == <<mock, user_input, agent>>
apiVars == <<agents, instances, log, inbox, arrived, last, raced>>

NoAgent == [raised |-> FALSE, cohere_client |-> FALSE, qdrant |-> FALSE]
NoOut == Outcome(FALSE, <<>>, NoFlow)
NoBody == [response |-> <<>>, sources |-> <<>>, session_id |-> NoneVal, status |-> ""]
NoLast ==
    [req |-> Request(<<>>, NoneVal), http |-> 0, detail |-> "", body |-> NoBody,
     served |-> 0, queried |-> FALSE]
NoMock == Mock("ok", "ok", "ok", Hits(<<>>), NoneVal)

\* agent_manager = AgentManager() (api.py:82-84, 97)
InitManager ==
    /\ agents = <<>>
    /\ instances = <<>>
    /\ log = <<>>
    /\ inbox = [r \in Requests |-> 0]
    /\ arrived = 0
    /\ last = NoLast
    /\ raced = {}

InitLocal(keys, queries, mocks) ==
    /\ cohereKey \in keys
    /\ mock \in mocks
    /\ user_input \in queries
    /\ pc = "start"
    /\ agent = NoAgent
    /\ out = NoOut
    /\ InitManager

InitQuery ==
    \/ InitLocal(BOOLEAN, Strings(MaxQueryLen), QueryMocks)
    \/ InitLocal(BOOLEAN, SampleQueries, ServiceMocks)
    \/ InitLocal({TRUE}, {Substantive}, SearchMocks)

\* agent = BookContentAgent() (agent.py:215, 42-47)
Construct ==
    /\ pc = "start"
    /\ LET a == InitializeClients(cohereKey, mock)
       IN /\ agent' = a
          /\ pc' = IF a.raised THEN "crashed" ELSE "ready"
    /\ UNCHANGED <<cohereKey, mock, user_input, out>>
    /\ UNCHANGED apiVars

\* agent.query(user_input) (agent.py:216)
CallQuery ==
    /\ pc = "ready"
    /\ out' = Query(agent, user_input, mock)
    /\ pc' = "done"
    /\ UNCHANGED <<cohereKey, mock, user_input, agent>>
    /\ UNCHANGED apiVars

NextQuery == Construct \/ CallQuery

SpecQuery == InitQuery /\ [][NextQuery]_vars

\* ------------------------------------------------------------ AgentManager
\* key = session_id or "default"
KeyOf(session_id) ==
    IF session_id.t = "None" \/ session_id.v = "" THEN "default" ELSE session_id.v

Got(raised, ag, insts, lg, served) ==
    [raised |-> raised, agents |-> ag, instances |-> insts, log |-> lg,
     served |-> served]

GetAgentAlwaysNew(ag, insts, lg, session_id, key_set, m) ==
    LET key == KeyOf(session_id)
        a == InitializeClients(key_set, m)
    IN IF a.raised THEN Got(TRUE, ag, insts, Append(lg, <<"create", key>>), 0)
       ELSE Got(FALSE,
                [k \in DOMAIN ag \cup {key} |->
                    IF k = key THEN Len(insts) + 1 ELSE ag[k]],
                Append(insts, a), Append(lg, <<"create", key>>), Len(insts) + 1)

GetAgentNoDefault(ag, insts, lg, session_id, key_set, m) ==
    LET key == IF session_id.t = "None" THEN "default" ELSE session_id.v
    IN IF key \notin DOMAIN ag
       THEN LET a == InitializeClients(key_set, m)
            IN IF a.raised
               THEN Got(TRUE, ag, insts, Append(lg, <<"create", key>>), 0)
               ELSE Got(FALSE,
                        [k \in DOMAIN ag \cup {key} |->
                            IF k = key THEN Len(insts) + 1 ELSE ag[k]],
                        Append(insts, a), Append(lg, <<"create", key>>),
                        Len(insts) + 1)
       ELSE Got(FALSE, ag, insts, Append(lg, <<"reuse", key>>), ag[key])

\* AgentManager.get_agent (api.py:86-95).  The assignment to agents[key]
\* happens only when BookContentAgent() returns.
GetAgent(ag, insts, lg, session_id, key_set, m) ==
    LET key == KeyOf(session_id)
    IN IF key \notin DOMAIN ag
       THEN LET a == InitializeClients(key_set, m)
            IN IF a.raised
               THEN Got(TRUE, ag, insts, Append(lg, <<"create", key>>), 0)
               ELSE Got(FALSE,
                        [k \in DOMAIN ag \cup {key} |->
                            IF k = key THEN Len(insts) + 1 ELSE ag[k]],
                        Append(insts, a), Append(lg, <<"create", key>>),
                        Len(insts) + 1)
       ELSE Got(FALSE, ag, insts, Append(lg, <<"reuse", key>>), ag[key])

\* ---------------------------------------------------------- query_endpoint
Handled(got, o, http, detail, body, queried) ==
    [got |-> got, out |-> o,
     resp |-> [http |-> http, detail |-> detail, body |-> body,
               served |-> got.served, queried |-> queried]]

\* The try block of query_endpoint (api.py:119-135).
Delegate(ag, insts, lg, r, key_set, m) ==
    LET got == GetAgent(ag, insts, lg, r.session_id, key_set, m)
    IN IF got.raised
       THEN Handled(got, NoOut, 500, "Internal server error", NoBody, FALSE)
       ELSE LET o == Query(got.instances[got.served], r.query, m)
            IN IF o.raised
               THEN Handled(got, o, 500, "Internal server error", NoBody, TRUE)
               ELSE Handled(got, o, 200, "",
                            [response |-> o.result, sources |-> <<>>,
                             session_id |-> r.session_id, status |-> "success"],
                            TRUE)

QueryEndpointNoCheck(ag, insts, lg, r, key_set, m) ==
    Delegate(ag, insts, lg, r, key_set, m)

QueryEndpointEchoKey(ag, insts, lg, r, key_set, m) ==
    IF Strip(r.query) = <<>>
    THEN Handled(Got(FALSE, ag, insts, lg, 0), NoOut, 400,
                 "Query cannot be empty", NoBody, FALSE)
    ELSE LET h == Delegate(ag, insts, lg, r, key_set, m)
         IN [h EXCEPT !.resp.body.session_id =
                IF h.resp.http = 200 THEN Str(KeyOf(r.session_id)) ELSE @]

\* query_endpoint (api.py:114-135)
QueryEndpoint(ag, insts, lg, r, key_set, m) ==
    IF Strip(r.query) = <<>>
    THEN Handled(Got(FALSE, ag, insts, lg, 0), NoOut, 400,
                 "Query cannot be empty", NoBody, FALSE)
    ELSE Delegate(ag, insts, lg, r, key_set, m)

Pending(key) ==
    {r \in Requests : inbox[r] > 0 /\ Strip(r.query) # <<>>
                      /\ KeyOf(r.session_id) = key}

InitServer ==
    /\ cohereKey \in BOOLEAN
    /\ mock = NoMock
    /\ user_input = <<>>
    /\ pc = "serve"
    /\ agent = NoAgent
    /\ out = NoOut
    /\ InitManager

\* A POST /query is accepted; its coroutine waits for the event loop.
Arrive ==
    /\ pc = "serve"
    /\ arrived < MaxRequests
    /\ \E r \in Requests :
        /\ inbox' = [inbox EXCEPT ![r] = @ + 1]
        /\ raced' =
            IF /\ Strip(r.query) # <<>>
               /\ KeyOf(r.session_id) \notin DOMAIN agents
               /\ Pending(KeyOf(r.session_id)) # {}
            THEN raced \cup {KeyOf(r.session_id)}
            ELSE raced
    /\ arrived' = arrived + 1
    /\ UNCHANGED <<cohereKey, pc, out, agents, instances, log, last>>
    /\ UNCHANGED localVars

\* The event loop runs one waiting coroutine.  query_endpoint is an
\* `async def` with no await in its body (api.py:115-135), so it runs from
\* its first line to its return before any other coroutine is resumed.
Handle ==
    /\ pc = "serve"
    /\ \E r \in Requests, m \in ApiMocks :
        /\ inbox[r] > 0
        /\ inbox' = [inbox EXCEPT ![r] = @ - 1]
        /\ \E h \in {QueryEndpoint(agents, instances, log, r, cohereKey, m)} :
              /\ agents' = h.got.agents
              /\ instances' = h.got.instances
              /\ log' = h.got.log
              /\ out' = h.out
              /\ last' = [req |-> r, http |-> h.resp.http,
                          detail |-> h.resp.detail, body |-> h.resp.body,
                          served |-> h.resp.served, queried |-> h.resp.queried]
    /\ UNCHANGED <<cohereKey, pc, arrived, raced>>
    /\ UNCHANGED localVars

NextApi == Arrive \/ Handle

SpecApi == InitServer /\ [][NextApi]_vars

\* ======================================================================
\* Properties of BookContentAgent, checked under SpecQuery.
\* ======================================================================

\* What the specification says of a query text, stated on its characters.
AllBlank(u) == \A i \in DOMAIN u : u[i] \in Whitespace

MatchesGreeting(u) ==
    \E g \in greetings : \E a \in 0..(Len(u) - Len(g)) :
        /\ \A i \in 1..a : u[i] \in Whitespace
        /\ \A i \in (a + Len(g) + 1)..Len(u) : u[i] \in Whitespace
        /\ \A i \in 1..Len(g) : LowerChar(u[a + i]) = g[i]

HasBlockedKeyword(u) ==
    \E k \in off_topic_keywords : \E i \in 0..(Len(u) - Len(k)) :
        \A j \in 1..Len(k) : LowerChar(u[i + j]) = k[j]

IsSubstantive(u) == ~AllBlank(u) /\ ~MatchesGreeting(u) /\ ~HasBlockedKeyword(u)

EarlyMessages == {EmptyQueryMsg, GreetingMsg, OffTopicMsg, UnavailableMsg}

Returned(msg) == ~out.raised /\ out.result = msg /\ out.calls = <<>>

\* C1: query is a first-match-wins decision list: blank input gets the
\* empty-query message; else a greeting (ignoring case and surrounding
\* blanks) gets the greeting; else an input containing a blocked keyword
\* gets the refusal; else an unconfigured generation client gets the
\* unavailable message; else the retrieval-augmented flow runs.  The four
\* early rules issue no external call.
C1_FirstMatchWins ==
    pc = "done" =>
        IF AllBlank(user_input) THEN Returned(EmptyQueryMsg)
        ELSE IF MatchesGreeting(user_input) THEN Returned(GreetingMsg)
        ELSE IF HasBlockedKeyword(user_input) THEN Returned(OffTopicMsg)
        ELSE IF ~agent.cohere_client THEN Returned(UnavailableMsg)
        ELSE /\ out.calls # <<>>
             /\ Head(out.calls) = "embed"
             /\ out.result \notin EarlyMessages

\* A keyword inside a longer input is refused although both clients are
\* configured and embedding, search and generation would all succeed.
C1_Witness ==
    /\ pc = "done"
    /\ user_input = <<"t","h","e"," ","D","I","E","T","s">>
    /\ agent.cohere_client /\ agent.qdrant
    /\ mock.embed = "ok" /\ mock.search = Hits(OneGoodHit) /\ mock.chat.t = "str"
    /\ out.result = OffTopicMsg

\* C2: with the generation client unconfigured, a non-empty, non-greeting
\* query without blocked keyword returns the unavailable message and no
\* embedding, search or generation call is issued, whether or not the
\* vector-store client is configured.
C2_UnavailableNoCalls ==
    (pc = "done" /\ ~agent.cohere_client /\ IsSubstantive(user_input)) =>
        /\ ~out.raised
        /\ out.result = UnavailableMsg
        /\ \A i \in DOMAIN out.calls : out.calls[i] \notin {"embed", "search", "chat"}

C2_Witness ==
    /\ pc = "done"
    /\ ~agent.cohere_client /\ agent.qdrant
    /\ IsSubstantive(user_input)
    /\ out.result = UnavailableMsg

\* The hits as the specification reads them.
SpecScore(hit) == IF hit.score.t = "None" THEN 0 ELSE hit.score.v

SpecBlank(hit) ==
    \/ hit.payload.t = "None"
    \/ hit.payload.content.t = "absent"
    \/ hit.payload.content.t = "str" /\ AllBlank(hit.payload.content.v)

\* A hit whose content is present and is no string: reading it raises.
Malformed(hit) ==
    hit.payload.t = "dict" /\ hit.payload.content.t = "None"

Qualifies(hit) == SpecScore(hit) >= 30 /\ ~SpecBlank(hit) /\ ~Malformed(hit)

SearchReturned ==
    /\ pc = "done"
    /\ agent.cohere_client /\ IsSubstantive(user_input)
    /\ mock.embed = "ok"
    /\ agent.qdrant /\ mock.search.t = "hits"

NothingSurvives ==
    /\ pc = "done"
    /\ agent.cohere_client /\ IsSubstantive(user_input)
    /\ mock.embed = "ok"
    /\ \/ ~agent.qdrant
       \/ /\ mock.search.t = "hits"
          /\ \A i \in DOMAIN mock.search.hits :
                \/ SpecScore(mock.search.hits[i]) < 30
                \/ SpecBlank(mock.search.hits[i])

Issued(call) == \E i \in DOMAIN out.calls : out.calls[i] = call

\* C3: when no passage survives filtering (no hits, every hit below 0.30 or
\* blank, or no vector-store client), query returns the no-relevant-content
\* message and issues no generation call; a generation call is issued only
\* as the last call, after the embedding call and the search returned and
\* with at least one passage retained.
C3_NoPassageNoGeneration ==
    /\ NothingSurvives =>
          /\ out.result = NoContentMsg
          /\ ~Issued("chat")
          /\ out.retrieved = <<>>
    /\ (pc = "done" /\ Issued("chat")) =>
          /\ out.calls = <<"embed", "search", "chat">>
          /\ mock.embed = "ok" /\ mock.search.t = "hits"
          /\ out.retrieved # <<>>
          /\ \E i \in DOMAIN mock.search.hits : Qualifies(mock.search.hits[i])

C3_Witness ==
    /\ NothingSurvives
    /\ agent.qdrant
    /\ Len(mock.search.hits) >= 2
    /\ \E i \in DOMAIN mock.search.hits : SpecScore(mock.search.hits[i]) >= 30
    /\ \E i \in DOMAIN mock.search.hits : SpecScore(mock.search.hits[i]) < 30
    /\ out.calls = <<"embed", "search">>
    /\ out.result = NoContentMsg

First800(s) == [i \in 1..(IF Len(s) <= 800 THEN Len(s) ELSE 800) |-> s[i]]

Passages(hits) ==
    LET q == SelectSeq(hits, Qualifies)
    IN [i \in DOMAIN q |-> First800(q[i].payload.content.v)]

\* C4: the passages of the context are, in the order of the search, the
\* hits with score >= 0.30 (a missing score counting as 0) and non-blank
\* content, each cut to its first 800 characters.  (A hit that passes the
\* score test with a content that is no string makes the loop raise: no
\* context is built then.)
C4_ContextIsFilteredHits ==
    (SearchReturned /\ \A i \in DOMAIN mock.search.hits :
                          SpecScore(mock.search.hits[i]) >= 30
                              => ~Malformed(mock.search.hits[i])) =>
        LET want == Passages(mock.search.hits)
        IN /\ out.hits = mock.search.hits
           /\ [i \in DOMAIN out.retrieved |-> out.retrieved[i].content] = want
           /\ want # <<>> =>
                /\ out.prompt.context =
                      [i \in DOMAIN want |-> [label |-> i, content |-> want[i]]]
                /\ out.prompt.question = user_input
           /\ want = <<>> => out.prompt = NoPrompt

\* Scores [0.5, 0.2, 0.4], the first passage 801 characters long: two
\* excerpts, the first of 800 characters; and a hit at exactly 0.30 is kept.
C4_Witness ==
    /\ SearchReturned
    /\ Len(mock.search.hits) = 3
    /\ mock.search.hits[1] = Hit(Float(50), Dict(Str(LongText)))
    /\ mock.search.hits[2] = Hit(Float(20), Dict(Str(ShortText)))
    /\ mock.search.hits[3] = Hit(Float(40), Dict(Str(ShortText)))
    /\ Len(out.prompt.context) = 2
    /\ Len(out.prompt.context[1].content) = 800
    /\ out.prompt.context[2].content = ShortText

\* An exception is raised in the flow: by the embedding call (or its empty
\* result), by the search, by the loop over the hits, or by generation.
FlowRaises ==
    /\ pc = "done"
    /\ agent.cohere_client /\ IsSubstantive(user_input)
    /\ \/ mock.embed # "ok"
       \/ /\ mock.embed = "ok" /\ agent.qdrant
          /\ \/ mock.search.t = "raise"
             \/ /\ mock.search.t = "hits"
                /\ \E i \in DOMAIN mock.search.hits :
                      /\ SpecScore(mock.search.hits[i]) >= 30
                      /\ Malformed(mock.search.hits[i])
       \/ Issued("chat") /\ mock.chat.t = "raise"

CallCount(call) == Cardinality({i \in DOMAIN out.calls : out.calls[i] = call})

\* C5: an exception raised anywhere in the retrieval-augmented flow never
\* leaves query: query returns the one internal-error message, whichever
\* step failed, and each of embed, search and generate is issued at most
\* once per query.
C5_ExceptionsBecomeOneMessage ==
    /\ pc = "done" => ~out.raised
    /\ FlowRaises => out.result = InternalErrorMsg
    /\ pc = "done" => \A c \in {"embed", "search", "chat"} : CallCount(c) <= 1

\* Generation fails in an otherwise valid flow.
C5_Witness ==
    /\ FlowRaises
    /\ mock.chat.t = "raise"
    /\ out.calls = <<"embed", "search", "chat">>
    /\ out.retrieved # <<>>
    /\ out.result = InternalErrorMsg

GenerationUnconfigured == ~cohereKey \/ mock.cohere_init = "raise"
VectorStoreFailed == mock.qdrant_init = "raise"

\* C8 as stated: any configuration error at startup (credentials missing,
\* or the vector-store connection failing) leaves construction working and
\* makes substantive queries return the unavailable message.
C8_AnyConfigErrorUnavailable ==
    /\ pc # "crashed"
    /\ (pc = "done" /\ IsSubstantive(user_input)
            /\ (GenerationUnconfigured \/ VectorStoreFailed)) =>
          out.result = UnavailableMsg

\* C8, amended: no configuration error makes construction fail; when it
\* leaves the generation client unconfigured, substantive queries return
\* the unavailable message; when only the vector-store connection failed,
\* the flow runs without search and generation and returns the
\* no-relevant-content message, or the internal-error message when the
\* embedding call fails.
C8_DegradesPerClient ==
    /\ pc # "crashed"
    /\ pc \in {"ready", "done"} =>
          /\ ~agent.raised
          /\ agent.cohere_client = ~GenerationUnconfigured
          /\ agent.qdrant = ~VectorStoreFailed
    /\ (pc = "done" /\ IsSubstantive(user_input) /\ GenerationUnconfigured) =>
          out.result = UnavailableMsg /\ out.calls = <<>>
    /\ (pc = "done" /\ IsSubstantive(user_input) /\ ~GenerationUnconfigured
            /\ VectorStoreFailed) =>
          /\ out.calls = <<"embed">>
          /\ out.result = IF mock.embed = "ok" THEN NoContentMsg ELSE InternalErrorMsg

C8_Witness ==
    /\ pc = "done"
    /\ IsSubstantive(user_input)
    /\ cohereKey /\ mock.cohere_init = "ok" /\ VectorStoreFailed
    /\ mock.embed = "ok"
    /\ out.result = NoContentMsg

\* ======================================================================
\* Properties of the HTTP facade, checked under SpecApi.
\* ======================================================================

\* A request has been handled, and the step that handles one.
Answered == last.http # 0
HandleStep == inbox' # inbox /\ arrived' = arrived

\* The session key as the specification gives it.
SpecKey(session_id) ==
    IF session_id = NoneVal \/ session_id = Str("") THEN "default" ELSE session_id.v

\* C6: POST /query rejects an empty or whitespace-only query with HTTP 400
\* before resolving a session: the step creates no instance, leaves the
\* session map as it was and does not call the orchestrator, and the
\* orchestrator's empty-query message is never a response of the endpoint.
C6_BlankRejectedBeforeSession ==
    /\ [](Answered =>
            /\ AllBlank(last.req.query) =>
                  /\ last.http = 400 /\ last.detail = "Query cannot be empty"
                  /\ ~last.queried /\ last.served = 0 /\ last.body = NoBody
            /\ last.body.response # EmptyQueryMsg)
    /\ [][(HandleStep /\ AllBlank(last'.req.query)) =>
            /\ agents' = agents
            /\ instances' = instances
            /\ log' = log]_vars

\* A blank query for a session not seen before is rejected and the session
\* map, which holds another session, has no entry for it.
C6_Witness ==
    /\ last.http = 400
    /\ last.req = Request(<<" ", " ">>, Str("a"))
    /\ DOMAIN agents = {"default"}

Creations(key) == Cardinality({i \in DOMAIN log : log[i] = <<"create", key>>})
Reuses(key) == Cardinality({i \in DOMAIN log : log[i] = <<"reuse", key>>})
RequestedKeys == {log[i][2] : i \in DOMAIN log}

\* C7: the session map holds exactly one instance per key requested so far,
\* the key being the session id, or "default" for none or an empty one; an
\* instance is constructed only by the first request for its key, later
\* requests get that instance, and no entry is removed or replaced.
C7_OneInstancePerKey ==
    /\ [](/\ DOMAIN agents = RequestedKeys
          /\ Len(instances) = Cardinality(DOMAIN agents)
          /\ \A k \in DOMAIN agents :
                /\ agents[k] \in DOMAIN instances
                /\ Creations(k) = 1
                /\ \A j \in DOMAIN agents : agents[j] = agents[k] => j = k
          /\ \A i \in DOMAIN log :
                log[i][1] = "create" <=> (\A j \in 1..(i - 1) : log[j][2] # log[i][2])
          /\ (Answered /\ last.queried) =>
                /\ SpecKey(last.req.session_id) \in DOMAIN agents
                /\ last.served = agents[SpecKey(last.req.session_id)]
                /\ log[Len(log)][2] = SpecKey(last.req.session_id))
    /\ [][/\ \A k \in DOMAIN agents : k \in DOMAIN agents' /\ agents'[k] = agents[k]
          /\ \A i \in DOMAIN instances :
                i \in DOMAIN instances' /\ instances'[i] = instances[i]]_vars

\* A second request, with an empty session id, is served by the instance
\* made for "default" by the first.
C7_Witness ==
    /\ log = << <<"create", "default">>, <<"reuse", "default">> >>
    /\ last.req.session_id = Str("")
    /\ last.served = 1
    /\ Len(instances) = 1

\* An exception left get_agent or the orchestrator.
Escaped == last.served = 0 \/ out.raised

\* C9: for a non-blank query the endpoint returns the envelope holding
\* exactly the orchestrator's string, no sources, the session id as it was
\* supplied (an absent one stays absent) and status "success", whichever
\* branch the orchestrator took; HTTP 500 with the fixed detail is returned
\* only when an exception escaped session resolution or the orchestrator.
C9_EnvelopeWrapsAnswer ==
    (Answered /\ ~AllBlank(last.req.query)) =>
        IF Escaped
        THEN last.http = 500 /\ last.detail = "Internal server error"
        ELSE /\ last.http = 200
             /\ last.queried
             /\ last.body.response = out.result
             /\ last.body.sources = <<>>
             /\ last.body.session_id = last.req.session_id
             /\ last.body.status = "success"
             /\ MatchesGreeting(last.req.query) => last.body.response = GreetingMsg
             /\ HasBlockedKeyword(last.req.query) => last.body.response = OffTopicMsg
             /\ (IsSubstantive(last.req.query)
                    /\ ~instances[last.served].cohere_client) =>
                   last.body.response = UnavailableMsg
             /\ (IsSubstantive(last.req.query)
                    /\ instances[last.served].cohere_client) =>
                   /\ out.calls # <<>>
                   /\ last.body.response \notin EarlyMessages

\* The internal-error fallback of the orchestrator is wrapped as a success,
\* and the absent session id is echoed as absent.
C9_Witness ==
    /\ last.http = 200
    /\ last.req = Request(Substantive, NoneVal)
    /\ last.body.session_id = NoneVal
    /\ last.body.response = InternalErrorMsg
    /\ DOMAIN agents = {"default"}

\* C10 as stated: two first requests for the same new key that wait at the
\* same time each construct an instance, so that the key has got more than
\* one instance once both are handled.
C10_RacedKeysGetDuplicates ==
    \A k \in raced : Pending(k) = {} => Creations(k) >= 2

\* C10, amended: get_agent takes no lock, but the endpoint's coroutine has
\* no await, so the event loop runs each handler to its end before the
\* next: of two first requests for the same new key that wait at the same
\* time, the one run first constructs the instance and the other reuses
\* it; no key ever gets more than one instance.
C10_NoDuplicateInstances ==
    /\ \A k \in RequestedKeys : Creations(k) = 1
    /\ \A k \in raced :
          /\ Pending(k) # {} => Creations(k) <= 1
          /\ Pending(k) = {} => Creations(k) = 1

C10_Witness ==
    /\ "a" \in raced
    /\ Pending("a") = {}
    /\ arrived = 2
    /\ log = << <<"create", "a">>, <<"reuse", "a">> >>

====
